---- MODULE Spec2Model ----
(***************************************************************************)
(* Motion-control core of MbRobot (src/robot/src/core/robot.py).           *)
(*                                                                         *)
(* Two threads: the main path of control, which calls the motion           *)
(* primitives one at a time, and the task_handler thread started by        *)
(* __init__, which polls the LEFT button and clears self.active.           *)
(*                                                                         *)
(* Gains and speeds are kept in hundredths (kp = 6 is 600, ki = 0.15 is    *)
(* 15, a speed of 90 is 9000), so the PID arithmetic is exact on integers. *)
(* Angles and errors are integers; the wheel samples have an even sum so   *)
(* that the average of the two wheel angles is an integer as well.         *)
(***************************************************************************)
EXTENDS Integers, Sequences, FiniteSets, TLC

VARIABLES
    active,   \* self.active, the global switch
    button,   \* Button.LEFT in self.Ev3.buttons.pressed()
    pc,       \* position of the main thread
    caller,   \* who called drive: "main", "follow_line", "drive_to_line", "square_line"
    T,        \* frame of turn (arguments and locals)
    D,        \* frame of drive
    S,        \* frame of square_line
    L,        \* frame of follow_line or drive_to_line
    pid,      \* the five PidController objects held by the robot
    cmd,      \* last command given to each steering motor
    used,     \* collaborators operated since the last call from the main path
    ret,      \* the last primitive that returned
    err       \* exception raised by the last call, "none" if it returned normally

vars == <<active, button, pc, caller, T, D, S, L, pid, cmd, used, ret, err>>

\* ------------------------------------------------------------------ bounds

\* Most iterations of the turn loop followed within one call.
MaxTurnIter == 2
\* Most iterations of the drive loop followed within one call.
MaxDriveIter == 2

\* --------------------------------------------------------------- helpers

\* An argument left at None is the empty tuple, a supplied value v is <<v>>.
None == <<>>
Some(v) == <<v>>

Abs(x) == IF x < 0 THEN -x ELSE x

\* ---------------------------------------------------------- PidController
\* control.py is not part of the sources: reset, settings and execute follow
\* section 4.1 of the specification; the attribute names kp, ki, kd and
\* output are the ones robot.py reads.

PidController(p, i, d) ==
    [kp |-> p, ki |-> i, kd |-> d, integral |-> 0, previous_error |-> 0, output |-> 0]

PidReset(c) == [c EXCEPT !.integral = 0, !.previous_error = 0]

PidSettings(c, p, i, d) ==
    [c EXCEPT !.kp = IF p = None THEN c.kp ELSE p[1],
              !.ki = IF i = None THEN c.ki ELSE i[1],
              !.kd = IF d = None THEN c.kd ELSE d[1]]

\* Mutant: the integral is the last error instead of the sum of the errors.
PidExecuteNoSum(c, error) == [c EXCEPT !.integral = error, !.previous_error = error, !.output = c.kp * error + c.ki * error + c.kd * (error - c.previous_error)]

\* output is in hundredths: the gains are.
PidExecute(c, error) ==
    LET integral == c.integral + error
        derivative == error - c.previous_error
    IN [c EXCEPT !.integral = integral,
                 !.previous_error = error,
                 !.output = c.kp * error + c.ki * integral + c.kd * derivative]

\* ------------------------------------------------------- setup_control
TurnKp == 600
TurnKi == 15
RunSpeedKp == 300
RunSpeedKi == 17
RunHeadingKp == 1500
RunHeadingKi == 10
LineFollowerSpeedKp == 140
LineFollowerHeadingKp == 300
LineFollowerHeadingKd == 40

\* PidController(6, 0.15): the third gain is left to the constructor's default.
DefaultKd == 0

setup_control(p, turn_control, run_control, line_follower_control) ==
    [TurnSpeedControl |->
        IF turn_control THEN PidController(TurnKp, TurnKi, DefaultKd)
        ELSE p.TurnSpeedControl,
     RunSpeedControl |->
        IF run_control THEN PidController(RunSpeedKp, RunSpeedKi, 0)
        ELSE p.RunSpeedControl,
     RunHeadingControl |->
        IF run_control THEN PidController(RunHeadingKp, RunHeadingKi, 0)
        ELSE p.RunHeadingControl,
     LineFollowerSpeedControl |->
        IF line_follower_control THEN PidController(LineFollowerSpeedKp, 0, 0)
        ELSE p.LineFollowerSpeedControl,
     LineFollowerHeadingControl |->
        IF line_follower_control
        THEN PidController(LineFollowerHeadingKp, 0, LineFollowerHeadingKd)
        ELSE p.LineFollowerHeadingControl]

\* ------------------------------------------------------------- collaborators

Wheels == {"left", "right"}

NoCmd == [kind |-> "none", speed |-> 0]
Run(speed) == [kind |-> "run", speed |-> speed]
Hold == [kind |-> "hold", speed |-> 0]
Brake == [kind |-> "brake", speed |-> 0]

\* The in-flight frames are cleared on return.
NoFrame == [fn |-> "none"]
\* What the last return left behind: the primitive, whether it passed its
\* "if self.active", the gain arguments it was given, why its loop ended and
\* the gains its controller had when the loop ended.
Returned(fn, live, args, why, gains) ==
    [fn |-> fn, live |-> live, args |-> args, why |-> why, gains |-> gains]
NoRet == Returned("none", FALSE, <<>>, "none", <<>>)

\* Values a caller-supplied exit_exec can return when it is called.
ExitExecKinds == {"never", "env"}

\* ------------------------------------------------------------------ __init__

Init ==
    /\ active = TRUE
    /\ button = FALSE
    /\ pc = "idle"
    /\ caller = "main"
    /\ T = NoFrame
    /\ D = NoFrame
    /\ S = NoFrame
    /\ L = NoFrame
    /\ pid = setup_control([TurnSpeedControl |-> None, RunSpeedControl |-> None,
                            RunHeadingControl |-> None,
                            LineFollowerSpeedControl |-> None,
                            LineFollowerHeadingControl |-> None], TRUE, TRUE, TRUE)
    /\ cmd = [w \in Wheels |-> NoCmd]
    /\ used = {}
    /\ ret = NoRet
    /\ err = "none"

\* ------------------------------------------------------------- environment

PressButton ==
    /\ ~button
    /\ button' = TRUE
    /\ UNCHANGED <<active, pc, caller, T, D, S, L, pid, cmd, used, ret, err>>

ReleaseButton ==
    /\ button
    /\ button' = FALSE
    /\ UNCHANGED <<active, pc, caller, T, D, S, L, pid, cmd, used, ret, err>>

\* --------------------------------------------------------------- task_handler

\* Mutant: the watcher polls the button but never clears the switch.
WatcherWriteIgnores(pressed, a) == a

\* Mutant: the switch follows the button, so releasing it re-enables the robot.
WatcherWriteFollowsButton(pressed, a) == ~pressed

\* if Button.LEFT in self.Ev3.buttons.pressed(): self.active = False
WatcherWrite(pressed, a) == IF pressed THEN FALSE ELSE a

task_handler ==
    /\ active' = WatcherWrite(button, active)
    /\ UNCHANGED <<button, pc, caller, T, D, S, L, pid, cmd, used, ret, err>>

\* ------------------------------------------------------------------- turn

TurnAngles == {-2, 3}
GyroTurnSamples == {-2, 0, 1, 4}
TurnKpOverrides == {None, Some(400)}
TurnKiOverrides == {None, Some(20)}
TurnKdOverrides == {None, Some(10)}

\* Mutant: the primitive starts whatever the switch says.
EntryGuardMissing(a) == TRUE

\* The guard every primitive starts with: if self.active:
EntryGuard(a) == a

\* Mutant: the turn loop does not look at the switch.
TurnLoopCondNoActive(moving, a, ex) == moving /\ ~ex

\* while moving and self.active and not exit_exec():
TurnLoopCond(moving, a, ex) == moving /\ a /\ ~ex

\* Mutant: the band is closed, -2 <= error <= 2.
TurnInBandClosed(error) == -2 <= error /\ error <= 2

\* if -2 < error < 2: moving = False
TurnInBand(error) == -2 < error /\ error < 2

\* Mutant: only the left wheel is held.
TurnStopLeftOnly(c) == [c EXCEPT !.left = Hold]

\* lines 91-92
TurnStop(c) == [left |-> Hold, right |-> Hold]

\* Mutant: the controller is not rebuilt after the turn.
TurnAfterKeep(p) == p

\* line 94
TurnAfter(p) == setup_control(p, TRUE, FALSE, FALSE)

\* Why a loop whose condition is false ended, in the order the condition is read.
LoopEnd(moving, a) ==
    IF ~moving THEN "done" ELSE IF ~a THEN "active" ELSE "exit_exec"

\* What a call of exit_exec can return.
ExitExecValues(kind) == IF kind = "never" THEN {FALSE} ELSE BOOLEAN

CallTurn ==
    /\ pc = "idle"
    /\ \E angle \in TurnAngles, kp \in TurnKpOverrides, ki \in TurnKiOverrides,
          kd \in TurnKdOverrides, ex \in ExitExecKinds :
          T' = [fn |-> "turn", angle |-> angle, speed_kp |-> kp, speed_ki |-> ki,
                speed_kd |-> kd, exit_exec |-> ex, moving |-> FALSE, error |-> 0,
                first_error |-> 0, iter |-> 0, late |-> 0, why |-> "none"]
    /\ pc' = "turn_entry"
    /\ used' = {}
    /\ ret' = NoRet
    /\ err' = "none"
    /\ UNCHANGED <<active, button, caller, D, S, L, pid, cmd>>

\* Mutant: ki and kd are taken from the caller only when kp was given, as
\* lines 80-82 of src/Robot/src/core/robot.py choose them.
TurnSettingsByKp(c, kp, ki, kd) == PidSettings(PidReset(c), kp, IF kp = None THEN None ELSE ki, IF kp = None THEN None ELSE kd)

\* lines 77-78
TurnSettings(c, kp, ki, kd) == PidSettings(PidReset(c), kp, ki, kd)

\* lines 74-80
TurnEntry ==
    /\ pc = "turn_entry"
    /\ IF EntryGuard(active)
       THEN /\ used' = used \cup {"gyro"}
            /\ pid' = [pid EXCEPT !.TurnSpeedControl =
                          TurnSettings(@, T.speed_kp, T.speed_ki, T.speed_kd)]
            /\ T' = [T EXCEPT !.moving = TRUE]
            /\ pc' = "turn_loop"
            /\ UNCHANGED ret
       ELSE /\ pc' = "idle"
            /\ ret' = Returned("turn", FALSE, <<>>, "none", <<>>)
            /\ T' = NoFrame
            /\ UNCHANGED <<used, pid>>
    /\ UNCHANGED <<active, button, caller, D, S, L, cmd, err>>

\* line 81
TurnLoopHead ==
    /\ pc = "turn_loop"
    /\ \E ex \in (IF T.moving /\ active THEN ExitExecValues(T.exit_exec) ELSE {FALSE}) :
          IF TurnLoopCond(T.moving, active, ex)
          THEN /\ T.iter < MaxTurnIter
               /\ pc' = "turn_body"
               /\ UNCHANGED T
          ELSE /\ pc' = "turn_exit"
               /\ T' = [T EXCEPT !.why = LoopEnd(T.moving, active)]
    /\ UNCHANGED <<active, button, caller, D, S, L, pid, cmd, used, ret, err>>

\* lines 82-89
TurnBody ==
    /\ pc = "turn_body"
    /\ \E gyro \in GyroTurnSamples :
          LET error == T.angle - gyro
              c == PidExecute(pid.TurnSpeedControl, error)
          IN /\ pid' = [pid EXCEPT !.TurnSpeedControl = c]
             /\ cmd' = [left |-> Run(c.output), right |-> Run(-c.output)]
             \* first_error remembers the error of the first iteration (it
             \* is not a variable of the code)
             /\ T' = [T EXCEPT !.error = error,
                               !.first_error = IF T.iter = 0 THEN error ELSE @,
                               !.moving = IF TurnInBand(error) THEN FALSE ELSE @,
                               !.iter = @ + 1,
                               !.late = IF active THEN @ ELSE @ + 1]
    /\ used' = used \cup {"gyro", "motor"}
    /\ pc' = "turn_loop"
    /\ UNCHANGED <<active, button, caller, D, S, L, ret, err>>

\* lines 91-94
TurnExit ==
    /\ pc = "turn_exit"
    /\ cmd' = TurnStop(cmd)
    /\ used' = used \cup {"motor"}
    /\ pid' = TurnAfter(pid)
    /\ ret' = Returned("turn", TRUE, <<T.speed_kp, T.speed_ki, T.speed_kd>>, T.why,
                       <<pid.TurnSpeedControl.kp, pid.TurnSpeedControl.ki,
                         pid.TurnSpeedControl.kd>>)
    /\ T' = NoFrame
    /\ pc' = "idle"
    /\ UNCHANGED <<active, button, caller, D, S, L, err>>

\* ------------------------------------------------------------------ drive

\* self.Tools.cm_to_degrees(distance) with RoboticTools(wheel_diameter=6.24):
\* tools.py is not part of the sources. One turn of the wheel (360 degrees)
\* covers pi * 6.24 = 19.60 cm; the result is kept to whole degrees and has
\* the sign of distance.
cm_to_degrees(distance) ==
    (IF distance < 0 THEN -1 ELSE 1) * ((Abs(distance) * 36000) \div 1960)

Distances == {54, -54, 1}
NoGains == <<None, None, None>>
DriveGainChoices ==
    { <<NoGains, NoGains>>,
      <<<<Some(120), None, None>>, NoGains>>,
      <<NoGains, <<Some(1000), None, Some(40)>>>> }
\* min_speed and max_speed: the defaults, and a pair given with a negative
\* min_speed whose magnitudes are equal.
DriveSpeedChoices == { <<90, 800>>, <<-200, 200>> }
Constant(v) == [kind |-> "const", value |-> v]
Callable == [kind |-> "callable", value |-> 0]
Reflection(target_value) == [kind |-> "reflection", value |-> target_value]
Orientations == {Constant(0), Constant(4), Callable}
GyroDriveSamples == {0, 1}
CallableSamples == {0, 1}
ReflectionSamples == {14, 15, 81, 84}
\* self.ColorSensors.calibration_log(): the white and the black value.
calibration_log == <<90, 10>>

\* Angles the two wheels (left, right) can report during a drive to
\* distance_dg: none, just short of half way, half way, just short of the
\* 20 degree band, and inside it; a short drive can also roll 50 degrees
\* past its target.
WheelSamples(distance_dg) ==
    LET a == Abs(distance_dg)
        sg == IF distance_dg < 0 THEN -1 ELSE 1
        below == (a - 1) \div 2
        half == (a + 1) \div 2
        mags == { <<0, 0>>, <<below - 1, below + 1>>, <<half, half>> }
                \cup (IF a >= 40 THEN { <<a - 22, a - 20>>, <<a - 20, a - 20>> }
                      ELSE { <<a + 50, a + 50>> })
    IN { <<sg * m[1], sg * m[2]>> : m \in mags }

\* Mutant: the drive loop does not look at the switch.
DriveLoopCondNoActive(moving, a, ex) == moving /\ ~ex

\* while moving and self.active and not exit_exec():
DriveLoopCond(moving, a, ex) == moving /\ a /\ ~ex

\* if abs(motors_dg) < abs(distance_dg)/2:
DriveFirstHalf(motors_dg, distance_dg) == 2 * Abs(motors_dg) < Abs(distance_dg)

\* Mutant: moved_enough follows the last reading instead of latching.
DriveMovedEnoughNow(moved_enough, motors_dg, distance_dg) == 2 * Abs(motors_dg) >= Abs(distance_dg)

\* lines 154-158: moved_enough = True is in the else branch only, and nothing
\* sets it back
DriveMovedEnough(moved_enough, motors_dg, distance_dg) ==
    IF 2 * Abs(motors_dg) < Abs(distance_dg) THEN moved_enough ELSE TRUE

\* Mutant: the error is distance_dg - motors_dg on both sides of half way.
DriveSpeedErrorDirect(motors_dg, distance_dg) == distance_dg - motors_dg

\* lines 154-158
DriveSpeedError(motors_dg, distance_dg) ==
    IF DriveFirstHalf(motors_dg, distance_dg)
    THEN distance_dg - (distance_dg - motors_dg)
    ELSE distance_dg - motors_dg

\* Mutant: only max_speed limits the output.
DriveClampMaxOnly(output, min_speed, max_speed) == IF Abs(output) > Abs(max_speed) * 100 THEN max_speed * 100 ELSE output

\* lines 163-166; output is in hundredths, min_speed and max_speed are not
DriveClamp(output, min_speed, max_speed) ==
    IF Abs(output) < Abs(min_speed) * 100 THEN min_speed * 100
    ELSE IF Abs(output) > Abs(max_speed) * 100 THEN max_speed * 100
    ELSE output

\* Mutant: the right wheel is not asked whether it is stalled.
DriveMovingLeftStallOnly(moving, moved_enough, motors_dg, distance_dg, stalled_left, stalled_right) ==
    IF moved_enough /\ (Abs(motors_dg) >= Abs(distance_dg) - 20 \/ stalled_left)
    THEN FALSE
    ELSE moving

\* Mutant: the exit checks do not wait for moved_enough.
DriveMovingUnguarded(moving, moved_enough, motors_dg, distance_dg, stalled_left, stalled_right) ==
    IF Abs(motors_dg) >= Abs(distance_dg) - 20 \/ stalled_left \/ stalled_right
    THEN FALSE
    ELSE moving

\* Mutant: the band is entered with > instead of >=.
DriveMovingStrict(moving, moved_enough, motors_dg, distance_dg, stalled_left, stalled_right) ==
    IF moved_enough
       /\ (Abs(motors_dg) > Abs(distance_dg) - 20 \/ stalled_left \/ stalled_right)
    THEN FALSE
    ELSE moving

\* lines 172-177
DriveMoving(moving, moved_enough, motors_dg, distance_dg, stalled_left, stalled_right) ==
    IF moved_enough
       /\ (Abs(motors_dg) >= Abs(distance_dg) - 20 \/ stalled_left \/ stalled_right)
    THEN FALSE
    ELSE moving

\* heading_error(): the values it can read (the gyro angle, what a callable
\* orientation returns, or the reflection follow_line's lambda reads)
HeadingSamples(orientation) ==
    CASE orientation.kind = "const" -> GyroDriveSamples
      [] orientation.kind = "callable" -> CallableSamples
      [] orientation.kind = "reflection" -> ReflectionSamples

\* Mutant: the heading error is always orientation - self.Gyro.angle().
heading_errorGyro(orientation, reading) == orientation.value - reading

\* line 144: (lambda: orientation - self.Gyro.angle()) if orientation is not
\* callable, orientation itself if it is; line 226 for follow_line's
\* lambda: sensor.reflection() - target_value. reading is what the call reads.
heading_error(orientation, reading) ==
    CASE orientation.kind = "const" -> orientation.value - reading
      [] orientation.kind = "callable" -> reading
      [] orientation.kind = "reflection" -> reading - orientation.value

\* What evaluating heading_error reads.
HeadingReads(orientation) ==
    CASE orientation.kind = "const" -> {"gyro_angle"}
      [] orientation.kind = "callable" -> {}
      [] orientation.kind = "reflection" -> {"sensor"}

\* exit_exec of drive: a caller's, or the line predicate of drive_to_line
\* (lines 278 and 280). What a call of it reads: the reflection for a line
\* predicate, and for a caller's function what it returns (1 for True).
DriveExitSamples(kind) ==
    CASE kind \in {"white", "black"} -> ReflectionSamples
      [] kind = "never" -> {0}
      [] OTHER -> {0, 1}

\* What exit_exec() returns on that reading.
DriveExitExec(kind, r) ==
    CASE kind = "white" -> r > calibration_log[1] - 7
      [] kind = "black" -> r < calibration_log[2] + 5
      [] OTHER -> r = 1

\* What a call of exit_exec touches: the sensor, or the caller's function.
DriveExitReads(kind) ==
    IF kind \in {"white", "black"} THEN {"sensor"} ELSE {"exit_exec"}

\* The arguments of a drive call, as its frame before line 126.
DriveArgs(distance, orientation, min_speed, max_speed, speed, heading, exit_exec) ==
    [fn |-> "drive", distance |-> distance, orientation |-> orientation,
     min_speed |-> min_speed, max_speed |-> max_speed,
     speed |-> speed, heading |-> heading, exit_exec |-> exit_exec,
     distance_dg |-> 0, moved_enough |-> FALSE, moving |-> FALSE,
     motors_dg |-> 0, speed_error |-> 0,
     stalled |-> [left |-> FALSE, right |-> FALSE],
     iter |-> 0, half_seen |-> FALSE, heading_read |-> 0,
     given |-> exit_exec, exit_read |-> 0, why |-> "none"]

\* Mutant: drive holds the wheels instead of braking them.
DriveStopHold(c) == [left |-> Hold, right |-> Hold]

\* lines 179-180
DriveStop(c) == [left |-> Brake, right |-> Brake]

\* Mutant: the two controllers of drive are not rebuilt after the drive.
DriveAfterKeep(p) == p

\* line 181
DriveAfter(p) == setup_control(p, FALSE, TRUE, FALSE)

\* Where drive returns to.
DriveReturn(c) == IF c = "follow_line" THEN "fl_after"
                  ELSE IF c = "square_line" THEN "sq_check"
                  ELSE "idle"

CallDrive ==
    /\ pc = "idle"
    /\ \E distance \in Distances, orientation \in Orientations,
          sp \in DriveSpeedChoices, g \in DriveGainChoices, ex \in ExitExecKinds :
          \* the second pair of speeds is followed with the default gains,
          \* orientation and exit_exec only
          /\ sp # <<90, 800>> =>
                g = <<NoGains, NoGains>> /\ orientation = Constant(0) /\ ex = "never"
          \* and so is the orientation 4, with the default speeds
          /\ orientation = Constant(4) =>
                g = <<NoGains, NoGains>> /\ sp = <<90, 800>> /\ ex = "never"
          /\ D' = DriveArgs(distance, orientation, sp[1], sp[2], g[1], g[2], ex)
    /\ pc' = "drive_entry"
    /\ caller' = "main"
    /\ used' = {}
    /\ ret' = NoRet
    /\ err' = "none"
    /\ UNCHANGED <<active, button, T, S, L, pid, cmd>>

\* lines 126-150
DriveEntry ==
    /\ pc = "drive_entry"
    /\ IF EntryGuard(active)
       THEN /\ used' = used \cup {"gyro", "motor"}
            /\ pid' = [pid EXCEPT
                  !.RunSpeedControl =
                      PidSettings(PidReset(@), D.speed[1], D.speed[2], D.speed[3]),
                  !.RunHeadingControl =
                      PidSettings(PidReset(@), D.heading[1], D.heading[2], D.heading[3])]
            /\ D' = [D EXCEPT
                  !.distance_dg = cm_to_degrees(D.distance),
                  !.min_speed = Abs(@) * (IF D.distance < 0 THEN -1 ELSE 1),
                  !.max_speed = Abs(@) * (IF D.distance < 0 THEN -1 ELSE 1),
                  !.moved_enough = FALSE,
                  !.moving = TRUE]
            /\ pc' = "drive_loop"
            /\ UNCHANGED <<ret, caller>>
       ELSE /\ pc' = DriveReturn(caller)
            /\ caller' = IF DriveReturn(caller) = "idle" THEN "main" ELSE caller
            /\ ret' = Returned("drive", FALSE, <<>>, "none", <<>>)
            /\ D' = NoFrame
            /\ UNCHANGED <<used, pid>>
    /\ UNCHANGED <<active, button, T, S, L, cmd, err>>

\* line 151
DriveLoopHead ==
    /\ pc = "drive_loop"
    /\ LET asked == D.moving /\ active
       IN \E r \in (IF asked THEN DriveExitSamples(D.exit_exec) ELSE {0}) :
            LET ex == asked /\ DriveExitExec(D.exit_exec, r)
            IN /\ used' = used \cup (IF asked THEN DriveExitReads(D.exit_exec) ELSE {})
               /\ IF DriveLoopCond(D.moving, active, ex)
                  THEN /\ D.iter < MaxDriveIter
                       /\ pc' = "drive_body"
                       /\ UNCHANGED D
                  ELSE /\ pc' = "drive_exit"
                       \* exit_read keeps the reading that ended the loop
                       \* (it is not a variable of the code)
                       /\ D' = [D EXCEPT !.why = LoopEnd(D.moving, active),
                                         !.exit_read = IF ex THEN r ELSE @]
    /\ UNCHANGED <<active, button, caller, T, S, L, pid, cmd, ret, err>>

\* lines 152-177
DriveBody ==
    /\ pc = "drive_body"
    /\ \E w \in WheelSamples(D.distance_dg), hr \in HeadingSamples(D.orientation),
          stalled_left \in BOOLEAN, stalled_right \in BOOLEAN :
          LET motors_dg == (w[2] + w[1]) \div 2
              herr == heading_error(D.orientation, hr)
              speed_error == DriveSpeedError(motors_dg, D.distance_dg)
              moved_enough == DriveMovedEnough(D.moved_enough, motors_dg, D.distance_dg)
              h == PidExecute(pid.RunHeadingControl, herr)
              s0 == PidExecute(pid.RunSpeedControl, speed_error)
              s == [s0 EXCEPT !.output = DriveClamp(@, D.min_speed, D.max_speed)]
          IN /\ pid' = [pid EXCEPT !.RunHeadingControl = h, !.RunSpeedControl = s]
             /\ cmd' = [left |-> Run(s.output), right |-> Run(s.output - h.output)]
             /\ D' = [D EXCEPT
                   !.motors_dg = motors_dg,
                   !.speed_error = speed_error,
                   !.moved_enough = moved_enough,
                   !.moving = DriveMoving(@, moved_enough, motors_dg, D.distance_dg,
                                          stalled_left, stalled_right),
                   !.stalled = [left |-> stalled_left, right |-> stalled_right],
                   !.iter = @ + 1,
                   !.heading_read = hr,
                   !.half_seen = @ \/ 2 * Abs(motors_dg) >= Abs(D.distance_dg)]
    /\ used' = used \cup {"motor"} \cup HeadingReads(D.orientation)
    /\ pc' = "drive_loop"
    /\ UNCHANGED <<active, button, caller, T, S, L, ret, err>>

\* lines 179-181
DriveExit ==
    /\ pc = "drive_exit"
    /\ cmd' = DriveStop(cmd)
    /\ used' = used \cup {"motor"}
    /\ pid' = DriveAfter(pid)
    /\ ret' = Returned("drive", TRUE, <<D.speed, D.heading>>, D.why, <<>>)
    /\ D' = NoFrame
    /\ pc' = DriveReturn(caller)
    /\ caller' = IF DriveReturn(caller) = "idle" THEN "main" ELSE caller
    /\ UNCHANGED <<active, button, T, S, L, err>>

\* ------------------------------------------------------------- follow_line

FollowLineTargets == {None, Some(50)}
FollowLineGainChoices ==
    { <<NoGains, NoGains>>,
      <<<<Some(200), None, None>>, <<None, Some(5), None>>>> }

CallFollowLine ==
    /\ pc = "idle"
    /\ \E target_value \in FollowLineTargets, g \in FollowLineGainChoices,
          ex \in ExitExecKinds :
          L' = [fn |-> "follow_line", distance |-> 54, target_value |-> target_value,
                speed |-> g[1], heading |-> g[2], exit_exec |-> ex]
    /\ pc' = "fl_entry"
    /\ used' = {}
    /\ ret' = NoRet
    /\ err' = "none"
    /\ UNCHANGED <<active, button, caller, T, D, S, pid, cmd>>

\* lines 215-235, up to the call of drive
FollowLineEntry ==
    /\ pc = "fl_entry"
    /\ IF EntryGuard(active)
       THEN LET target_value == IF L.target_value = None THEN calibration_log[1]
                                ELSE L.target_value[1]
                sp == PidSettings(PidReset(pid.LineFollowerSpeedControl),
                                  L.speed[1], L.speed[2], L.speed[3])
                hd == PidSettings(PidReset(pid.LineFollowerHeadingControl),
                                  L.heading[1], L.heading[2], L.heading[3])
            IN /\ used' = used \cup (IF L.target_value = None
                                     THEN {"calibration_log"} ELSE {})
               /\ pid' = [pid EXCEPT !.LineFollowerSpeedControl = sp,
                                     !.LineFollowerHeadingControl = hd]
               /\ D' = DriveArgs(L.distance, Reflection(target_value), 90, 800,
                                 <<Some(sp.kp), Some(sp.ki), Some(sp.kd)>>,
                                 <<Some(hd.kp), Some(hd.ki), Some(hd.kd)>>,
                                 L.exit_exec)
               /\ pc' = "drive_entry"
               /\ caller' = "follow_line"
               /\ UNCHANGED <<L, ret>>
       ELSE /\ pc' = "idle"
            /\ ret' = Returned("follow_line", FALSE, <<>>, "none", <<>>)
            /\ L' = NoFrame
            /\ UNCHANGED <<used, pid, D, caller>>
    /\ UNCHANGED <<active, button, T, S, cmd, err>>

\* Mutant: the two line-follower controllers are not rebuilt.
FollowLineAfterKeep(p) == p

\* line 237
FollowLineAfter(p) == setup_control(p, FALSE, FALSE, TRUE)

\* line 237
FollowLineExit ==
    /\ pc = "fl_after"
    /\ pid' = FollowLineAfter(pid)
    /\ ret' = Returned("follow_line", TRUE, <<L.speed, L.heading>>, "none", <<>>)
    /\ L' = NoFrame
    /\ pc' = "idle"
    /\ caller' = "main"
    /\ UNCHANGED <<active, button, T, D, S, cmd, used, err>>

\* ----------------------------------------------------------- drive_to_line

\* A color is the tuple of its characters.
Colors == { <<"W", "H", "I", "T", "E">>, <<"w", "h", "i", "t", "e">>,
            <<"B", "L", "A", "C", "K">>, <<"B", "l", "a", "c", "k">>,
            <<"R", "E", "D">> }
WHITE == <<"W", "H", "I", "T", "E">>
BLACK == <<"B", "L", "A", "C", "K">>

\* Mutant: the color is compared as it was given.
upperNone(color) == color

\* str.upper() on the letters the colors use
UpperChar(c) ==
    CASE c = "w" -> "W" [] c = "h" -> "H" [] c = "i" -> "I" [] c = "t" -> "T"
      [] c = "e" -> "E" [] c = "b" -> "B" [] c = "l" -> "L" [] c = "a" -> "A"
      [] c = "c" -> "C" [] c = "k" -> "K" [] c = "r" -> "R" [] c = "d" -> "D"
      [] OTHER -> c
upper(color) == [i \in 1..Len(color) |-> UpperChar(color[i])]

\* lines 277-282: the predicate the color selects, "error" for the raise
LineExitExec(color) ==
    IF upper(color) = WHITE THEN "white"
    ELSE IF upper(color) = BLACK THEN "black"
    ELSE "error"

CallDriveToLine ==
    /\ pc = "idle"
    /\ \E color \in Colors, g \in DriveGainChoices, ex \in ExitExecKinds :
          L' = [fn |-> "drive_to_line", distance |-> 54, color |-> color,
                orientation |-> Constant(0), speed |-> g[1], heading |-> g[2],
                min_speed |-> 90, max_speed |-> 800, exit_exec |-> ex]
    /\ pc' = "dtl_entry"
    /\ used' = {}
    /\ ret' = NoRet
    /\ err' = "none"
    /\ UNCHANGED <<active, button, caller, T, D, S, pid, cmd>>

\* Mutant: the caller's exit_exec is handed on to drive.
DriveToLineExitGiven(color, exit_exec) == exit_exec

\* lines 277-280 and 294: exit_exec is bound anew to the predicate of the
\* color before it is passed to drive
DriveToLineExit(color, exit_exec) == LineExitExec(color)

\* lines 273-294; drive_to_line ends when its drive returns
DriveToLineEntry ==
    /\ pc = "dtl_entry"
    /\ IF EntryGuard(active)
       THEN /\ used' = used \cup {"calibration_log"}
            /\ IF LineExitExec(L.color) = "error"
               THEN /\ err' = "Exception"
                    /\ pc' = "idle"
                    /\ ret' = Returned("drive_to_line", TRUE, <<L.color>>, "raise", <<>>)
                    /\ UNCHANGED <<D, caller>>
               ELSE \* given remembers the caller's exit_exec (it is not a
                    \* variable of drive)
                    /\ D' = [DriveArgs(L.distance, L.orientation, L.min_speed,
                                       L.max_speed, L.speed, L.heading,
                                       DriveToLineExit(L.color, L.exit_exec))
                             EXCEPT !.given = L.exit_exec]
                    /\ pc' = "drive_entry"
                    /\ caller' = "drive_to_line"
                    /\ UNCHANGED <<ret, err>>
       ELSE /\ pc' = "idle"
            /\ ret' = Returned("drive_to_line", FALSE, <<L.color>>, "none", <<>>)
            /\ UNCHANGED <<used, D, caller, err>>
    /\ L' = NoFrame
    /\ UNCHANGED <<active, button, T, S, pid, cmd>>

\* ------------------------------------------------------------- square_line

SquareSpeeds == {170, -170}

\* lines 320-327: whether a sensor reading satisfies the predicate of the color
SquareExitExec(color, reflection) ==
    IF upper(color) = WHITE THEN reflection > calibration_log[1] - 10
    ELSE reflection < calibration_log[2] + 5

CallSquareLine ==
    /\ pc = "idle"
    /\ \E forward \in BOOLEAN, speed \in SquareSpeeds, color \in Colors :
          S' = [fn |-> "square_line", forward |-> forward, speed |-> speed,
                color |-> color, repetition |-> 0,
                left_ok |-> FALSE, right_ok |-> FALSE, nudges |-> 0,
                starts |-> 0, late |-> FALSE,
                fired |-> [left |-> FALSE, right |-> FALSE], why |-> "none"]
    /\ pc' = "sq_entry"
    /\ used' = {}
    /\ ret' = NoRet
    /\ err' = "none"
    /\ UNCHANGED <<active, button, caller, T, D, L, pid, cmd>>

\* lines 313-327
SquareLineEntry ==
    /\ pc = "sq_entry"
    /\ IF EntryGuard(active)
       THEN /\ used' = used \cup {"calibration_log"}
            /\ IF LineExitExec(S.color) = "error"
               THEN /\ err' = "Exception"
                    /\ pc' = "idle"
                    /\ ret' = Returned("square_line", TRUE, <<S.color>>, "raise", <<>>)
                    /\ S' = NoFrame
               ELSE /\ S' = [S EXCEPT !.speed = Abs(@) * (IF S.forward THEN 1 ELSE -1)]
                    /\ pc' = "sq_rep"
                    /\ UNCHANGED <<ret, err>>
       ELSE /\ pc' = "idle"
            /\ ret' = Returned("square_line", FALSE, <<S.color>>, "none", <<>>)
            /\ S' = NoFrame
            /\ UNCHANGED <<used, err>>
    /\ UNCHANGED <<active, button, caller, T, D, L, pid, cmd>>

\* lines 329-333: a repetition starts. starts counts the repetitions started,
\* late records that one started when the flag was already cleared, and
\* fired holds what the two predicates returned in the last iteration (none
\* of the three is a variable of the code).
SquareLineRepetition ==
    /\ pc = "sq_rep"
    /\ cmd' = [left |-> Run(S.speed * 100), right |-> Run(S.speed * 100)]
    /\ S' = [S EXCEPT !.left_ok = FALSE, !.right_ok = FALSE,
                      !.starts = @ + 1, !.late = @ \/ ~active,
                      !.fired = [left |-> FALSE, right |-> FALSE]]
    /\ used' = used \cup {"motor"}
    /\ pc' = "sq_loop"
    /\ UNCHANGED <<active, button, caller, T, D, L, pid, ret, err>>

\* while self.active:
SquareLoopCond(a) == a

\* line 334
SquareLineLoopHead ==
    /\ pc = "sq_loop"
    /\ pc' = IF SquareLoopCond(active) THEN "sq_body" ELSE "sq_check"
    /\ UNCHANGED <<active, button, caller, T, D, S, L, pid, cmd, used, ret, err>>

\* Mutant: a side is done only while its predicate fires, as in
\* src/Robot/src/core/robot.py, which has no left_ok and right_ok.
LatchNone(ok, fired) == fired

\* lines 336-337 and 341-342: if ..._exit_exec(): ..._ok = True
Latch(ok, fired) == ok \/ fired

\* Mutant: the nudge is driven after every repetition.
SquareNudgesAlways(repetition) == TRUE

\* line 347: if repetition == 0
SquareNudges(repetition) == repetition = 0

\* line 348: -5 if speed > 0 else 5
NudgeDistance(speed) == IF speed > 0 THEN -5 ELSE 5

\* lines 335-349
SquareLineBody ==
    /\ pc = "sq_body"
    /\ \E rl \in ReflectionSamples, rr \in ReflectionSamples :
          LET fl == SquareExitExec(S.color, rl)
              fr == SquareExitExec(S.color, rr)
              left_ok == Latch(S.left_ok, fl)
              right_ok == Latch(S.right_ok, fr)
              S1 == [S EXCEPT !.left_ok = left_ok, !.right_ok = right_ok,
                              !.fired = [left |-> fl, right |-> fr]]
          IN /\ cmd' = [left |-> IF fl THEN Hold ELSE cmd.left,
                        right |-> IF fr THEN Hold ELSE cmd.right]
             /\ IF left_ok /\ right_ok
                THEN IF SquareNudges(S.repetition)
                     THEN /\ D' = DriveArgs(NudgeDistance(S.speed), Constant(0),
                                            90, 800, <<Some(120), None, None>>,
                                            NoGains, "never")
                          /\ pc' = "drive_entry"
                          /\ caller' = "square_line"
                          /\ S' = [S1 EXCEPT !.nudges = @ + 1]
                     ELSE /\ pc' = "sq_check"
                          /\ S' = S1
                          /\ UNCHANGED <<D, caller>>
                ELSE /\ pc' = "sq_loop"
                     /\ S' = S1
                     /\ UNCHANGED <<D, caller>>
    /\ used' = used \cup {"sensor", "motor"}
    /\ UNCHANGED <<active, button, T, L, pid, ret, err>>

\* Mutant: only the left wheel is held at the end.
SquareStopLeftOnly(c) == [left |-> Hold, right |-> c.right]

\* lines 354-355
SquareStop(c) == [left |-> Hold, right |-> Hold]

\* lines 351-352 and the end of the for loop
SquareLineCheck ==
    /\ pc = "sq_check"
    /\ IF ~active \/ S.repetition = 1
       THEN /\ pc' = "sq_exit"
            /\ S' = [S EXCEPT !.why = IF ~active THEN "active" ELSE "done"]
       ELSE pc' = "sq_rep" /\ S' = [S EXCEPT !.repetition = 1]
    /\ caller' = "main"
    /\ UNCHANGED <<active, button, T, D, L, pid, cmd, used, ret, err>>

\* lines 354-355
SquareLineExit ==
    /\ pc = "sq_exit"
    /\ cmd' = SquareStop(cmd)
    /\ used' = used \cup {"motor"}
    /\ ret' = Returned("square_line", TRUE, <<S.color>>, S.why, <<>>)
    /\ S' = NoFrame
    /\ pc' = "idle"
    /\ UNCHANGED <<active, button, caller, T, D, L, pid, err>>

\* ----------------------------------------------------------------- run_path

Paths == { <<>>, <<54>>, <<54, 3, 1>>, <<54, 3, 1, -2, 54>> }

\* The methods class MbRobot defines.
Methods == { "setup_control", "task_handler", "turn", "drive", "follow_line",
             "drive_to_line", "square_line", "run_path", "run_async", "pause",
             "wait" }

\* lines 367-370: the calls the loop makes in order, as <<method, argument>>:
\* for i in range(len(path) - 1), self.run(path[i]) and then, if
\* i < len(path) - 2, self.turn(path[i+1]).
RunPathAttempts(path) ==
    [k \in 1..(IF Len(path) <= 1 THEN 0 ELSE 2 * (Len(path) - 1) - 1) |->
        IF k % 2 = 1 THEN <<"run", path[(k + 1) \div 2]>>
                     ELSE <<"turn", path[(k \div 2) + 1]>>]

\* The calls that start: looking up a method the class does not have raises
\* AttributeError, which ends run_path.
RunPathIssued(path) ==
    LET att == RunPathAttempts(path)
        bad == { k \in 1..Len(att) : att[k][1] \notin Methods }
    IN  IF bad = {} THEN att
        ELSE SubSeq(att, 1, (CHOOSE k \in bad : \A j \in bad : k <= j) - 1)

\* lines 367-368: MbRobot has no method run, so the first self.run(path[i])
\* raises AttributeError; a path of fewer than two legs never reaches it.
run_path ==
    /\ pc = "idle"
    /\ \E path \in Paths :
          /\ err' = IF Len(RunPathIssued(path)) < Len(RunPathAttempts(path))
                     THEN "AttributeError" ELSE "none"
          /\ ret' = Returned("run_path", TRUE, path, "none", <<>>)
    /\ used' = {}
    /\ UNCHANGED <<active, button, pc, caller, T, D, S, L, pid, cmd>>

Next ==
    \/ PressButton
    \/ ReleaseButton
    \/ task_handler
    \/ CallTurn
    \/ TurnEntry
    \/ TurnLoopHead
    \/ TurnBody
    \/ TurnExit
    \/ CallDrive
    \/ DriveEntry
    \/ DriveLoopHead
    \/ DriveBody
    \/ DriveExit
    \/ CallFollowLine
    \/ FollowLineEntry
    \/ FollowLineExit
    \/ CallDriveToLine
    \/ DriveToLineEntry
    \/ CallSquareLine
    \/ SquareLineEntry
    \/ SquareLineRepetition
    \/ SquareLineLoopHead
    \/ SquareLineBody
    \/ SquareLineCheck
    \/ SquareLineExit
    \/ run_path

Spec == Init /\ [][Next]_vars

\* The steps of the main path of control inside a call: once called, a
\* primitive runs on (lines 56-355 have no blocking call).
MainStep ==
    \/ TurnEntry \/ TurnLoopHead \/ TurnBody \/ TurnExit
    \/ DriveEntry \/ DriveLoopHead \/ DriveBody \/ DriveExit
    \/ FollowLineEntry \/ FollowLineExit
    \/ DriveToLineEntry
    \/ SquareLineEntry \/ SquareLineRepetition \/ SquareLineLoopHead
    \/ SquareLineBody \/ SquareLineCheck \/ SquareLineExit

\* Fair scheduling: the watcher thread started at line 34 polls for ever
\* (while True, wait(10)), and the main path is not starved.
LiveSpec == Spec /\ WF_vars(task_handler) /\ WF_vars(MainStep)
\* ===================================================================== claims

BothHeld == cmd.left = Hold /\ cmd.right = Hold
BothBraked == cmd.left = Brake /\ cmd.right = Brake
MainState == <<pc, caller, T, D, S, L, pid, cmd, used, ret, err>>
EntryPcs == {"turn_entry", "drive_entry", "fl_entry", "dtl_entry", "sq_entry"}
LoopHeads == {"turn_loop", "drive_loop", "sq_loop"}
LoopBodies == {"turn_body", "drive_body", "sq_body"}

\* C1: self.active starts true; once it is false it is false in every later
\* state; the only step that changes it is one of task_handler, taken with
\* the button pressed, and it changes nothing else; no step of a motion
\* primitive (any step that changes the state of the main path) changes it.
C1_ActiveOnlyCleared ==
    /\ active = TRUE
    /\ [][ /\ (~active => ~active')
           /\ (active' # active => button /\ UNCHANGED MainState)
           /\ (MainState' # MainState => active' = active) ]_vars

\* C1 witness: the switch was cleared during a square_line call, the button
\* was released, and the switch is still off after the call returned.
C1_Witness ==
    /\ ~active /\ ~button
    /\ pc = "idle" /\ ret.fn = "square_line" /\ ret.live /\ ret.why = "active"

\* C2: a primitive (turn, drive, follow_line, drive_to_line, square_line)
\* that reaches its first line with self.active false returns at once: it
\* operates no collaborator, commands no motor and leaves every PID
\* controller as it was.
C2_NoOpWhenInactive ==
    [][ (pc \in EntryPcs /\ ~active /\ pc' # pc) =>
            /\ used' = used
            /\ cmd' = cmd
            /\ pid' = pid
            /\ err' = err
            /\ ~ret'.live
            /\ pc' = IF pc = "drive_entry" THEN DriveReturn(caller) ELSE "idle" ]_vars

\* C2 witness: follow_line was called with the switch off and has returned
\* without operating any collaborator.
C2_Witness ==
    /\ pc = "idle" /\ ~active
    /\ ret.fn = "follow_line" /\ ~ret.live /\ used = {}

\* C3: once self.active is false, the loop of turn, drive or square_line
\* starts no further iteration: its next check of the condition leaves the
\* loop, the primitive goes on to its stop commands, and it returns with
\* both wheels held (turn, square_line) or braked (drive).
C3_StopWithinOneIteration ==
    [][ /\ (pc \in LoopHeads /\ ~active => pc' \notin LoopBodies)
        /\ (pc = "turn_loop" /\ ~active /\ pc' # pc => pc' = "turn_exit")
        /\ (pc = "drive_loop" /\ ~active /\ pc' # pc => pc' = "drive_exit")
        /\ (pc \in {"sq_loop", "sq_check"} /\ ~active /\ pc' # pc
                => pc' \in {"sq_check", "sq_exit"} /\ pc' # pc)
        /\ (pc = "turn_exit" /\ pc' # pc => pc' = "idle" /\ BothHeld')
        /\ (pc = "sq_exit" /\ pc' # pc => pc' = "idle" /\ BothHeld')
        /\ (pc = "drive_exit" /\ pc' # pc
                => pc' = DriveReturn(caller) /\ BothBraked') ]_vars

\* C3 witness: a drive whose loop ran and was ended by the switch has
\* returned with both wheels braked.
C3_Witness ==
    /\ pc = "idle" /\ ~active
    /\ ret.fn = "drive" /\ ret.live /\ ret.why = "active"
    /\ BothBraked

\* C4 as stated: turn never gives a run command in a state where self.active
\* is already false.
C4_NoRunWhenInactive == T.fn = "turn" => T.late = 0

\* C4 amended: the switch is read once per iteration, in the loop condition,
\* so the iteration that had passed the condition when the switch was
\* cleared still runs the wheels; within one call at most one iteration
\* gives run commands with self.active false.
C4_AtMostOneLateRun == T.fn = "turn" => T.late <= 1

\* C4 witness: an iteration of turn has run the wheels with the switch off.
C4_Witness ==
    /\ T.fn = "turn" /\ T.late = 1 /\ ~active
    /\ cmd.left.kind = "run" /\ cmd.right.kind = "run"

\* C5: the turn loop goes on after an iteration exactly when that iteration's
\* error has |error| >= 2; it ends as "done" (not by the switch, not by
\* exit_exec) exactly after an iteration whose error is inside (-2, 2).
C5_TurnEndsInBand ==
    T.fn = "turn" =>
        /\ (pc = "turn_loop" /\ T.iter > 0 => (T.moving <=> Abs(T.error) >= 2))
        /\ (pc = "turn_body" /\ T.iter > 0 => Abs(T.error) >= 2)
        /\ (pc = "turn_exit" /\ T.why = "done" => T.iter > 0 /\ Abs(T.error) < 2)
        /\ (pc = "turn_exit" /\ T.iter > 0 /\ Abs(T.error) < 2 => T.why = "done")

\* C5 witness: the loop ended in its second iteration, the first one whose
\* error was inside the band.
C5_Witness ==
    /\ T.fn = "turn" /\ pc = "turn_exit"
    /\ T.iter = 2 /\ T.why = "done" /\ Abs(T.error) < 2 /\ active

\* C6: a turn that passed "if self.active" has returned with hold as the
\* last command of both wheels, whatever ended its loop.
C6_TurnEndsHeld == ret.fn = "turn" /\ ret.live => BothHeld

\* C6 witness: a turn ended by its exit_exec has returned with both wheels held.
C6_Witness ==
    /\ pc = "idle" /\ ret.fn = "turn" /\ ret.live /\ ret.why = "exit_exec"
    /\ BothHeld

\* C7 as stated: after turn returns, the Turn PID has the gains that were in
\* effect during the call.
C7_GainsSurviveTurn ==
    ret.fn = "turn" /\ ret.live =>
        <<pid.TurnSpeedControl.kp, pid.TurnSpeedControl.ki,
          pid.TurnSpeedControl.kd>> = ret.gains

\* C7 amended: after a turn that passed "if self.active" returns, the Turn PID
\* is a new controller with the construction gains; a turn called without
\* overrides runs with the construction gains whatever the earlier calls
\* were given.
C7_TurnRestoresDefaults ==
    /\ (ret.fn = "turn" /\ ret.live =>
            pid.TurnSpeedControl = PidController(TurnKp, TurnKi, DefaultKd))
    /\ (T.fn = "turn" /\ pc \in {"turn_loop", "turn_body", "turn_exit"} =>
            /\ (T.speed_kp = None => pid.TurnSpeedControl.kp = TurnKp)
            /\ (T.speed_ki = None => pid.TurnSpeedControl.ki = TurnKi)
            /\ (T.speed_kd = None => pid.TurnSpeedControl.kd = DefaultKd))

\* C7 witness: a turn given all three overrides has returned and the
\* controller is back at the construction gains.
C7_Witness ==
    /\ pc = "idle" /\ ret.fn = "turn" /\ ret.live
    /\ ret.args = <<Some(400), Some(20), Some(10)>>
    /\ ret.gains = <<400, 20, 10>>
    /\ pid.TurnSpeedControl.kp = TurnKp

\* C8 as stated: an iteration of drive in which a wheel is stalled ends the
\* loop, whatever motors_dg is, also before half of the target.
C8_StallAlwaysEnds ==
    D.fn = "drive" /\ pc = "drive_loop" /\ D.iter > 0
        /\ (D.stalled.left \/ D.stalled.right)
    => ~D.moving

\* C8 amended: once an iteration has read |motors_dg| >= |distance_dg|/2, an
\* iteration in which either wheel is stalled ends the loop, whatever
\* motors_dg it read; no further iteration follows it.
C8_StallEndsOnceHalfway ==
    D.fn = "drive" /\ D.iter > 0 /\ D.half_seen
        /\ (D.stalled.left \/ D.stalled.right)
    => /\ (pc = "drive_loop" => ~D.moving)
       /\ pc # "drive_body"
       /\ (pc = "drive_exit" => D.why = "done")

\* C8 witness: the right wheel alone stalled in an iteration that read less
\* than half of the target, after an earlier iteration had read half, and the
\* loop is over.
C8_Witness ==
    /\ D.fn = "drive" /\ pc = "drive_loop" /\ D.iter = 2
    /\ D.stalled.right /\ ~D.stalled.left /\ D.half_seen
    /\ 2 * Abs(D.motors_dg) < Abs(D.distance_dg)
    /\ ~D.moving

\* C9: as long as no iteration of drive has read |motors_dg| >=
\* |distance_dg|/2, moving stays true: the loop can only have ended by the
\* switch or by exit_exec.
C9_NoExitBeforeHalfway ==
    D.fn = "drive" /\ pc \in {"drive_loop", "drive_body", "drive_exit"}
        /\ ~D.half_seen
    => /\ D.moving
       /\ ~D.moved_enough
       /\ (pc = "drive_exit" => D.why \in {"active", "exit_exec"})

\* C9 witness: an iteration before half way read a magnitude inside the
\* 20 degree band with the left wheel stalled, and the loop goes on.
C9_Witness ==
    /\ D.fn = "drive" /\ pc = "drive_loop" /\ D.iter = 1 /\ ~D.half_seen
    /\ D.stalled.left
    /\ Abs(D.motors_dg) >= Abs(D.distance_dg) - 20
    /\ D.moving

\* C10 as stated: with no wheel stalled, the loop of drive ends in an
\* iteration exactly when it read |motors_dg| >= |distance_dg| - 20.
C10_EndsAtBand ==
    D.fn = "drive" /\ pc = "drive_loop" /\ D.iter > 0
        /\ ~D.stalled.left /\ ~D.stalled.right
    => (D.moving <=> Abs(D.motors_dg) < Abs(D.distance_dg) - 20)

\* C10 amended: with no wheel stalled, the loop of drive ends in an iteration
\* exactly when it read |motors_dg| >= |distance_dg| - 20 and that iteration
\* or an earlier one read |motors_dg| >= |distance_dg|/2; for |distance_dg|
\* >= 40 that is exactly when it read |motors_dg| >= |distance_dg| - 20.
C10_EndsAtBandOnceHalfway ==
    D.fn = "drive" /\ D.iter > 0 /\ ~D.stalled.left /\ ~D.stalled.right
    => LET reached == Abs(D.motors_dg) >= Abs(D.distance_dg) - 20
       IN /\ (pc = "drive_loop" => (D.moving <=> ~(D.half_seen /\ reached)))
          /\ (pc = "drive_loop" /\ Abs(D.distance_dg) >= 40
                => (D.moving <=> ~reached))
          /\ (pc = "drive_body" => ~(D.half_seen /\ reached))
          /\ (pc = "drive_exit" /\ D.why = "done" => reached)

\* C10 witness: the second iteration of a drive to at least 40 degrees read
\* exactly |distance_dg| - 20 with no wheel stalled and ended the loop.
C10_Witness ==
    /\ D.fn = "drive" /\ pc = "drive_loop" /\ D.iter = 2
    /\ ~D.stalled.left /\ ~D.stalled.right
    /\ Abs(D.distance_dg) >= 40
    /\ Abs(D.motors_dg) = Abs(D.distance_dg) - 20
    /\ ~D.moving
\* C11: in every iteration of drive the error given to the speed controller
\* is motors_dg when |motors_dg| < |distance_dg|/2 and distance_dg - motors_dg
\* otherwise.
C11_SpeedErrorFormula ==
    D.fn = "drive" /\ pc = "drive_loop" /\ D.iter > 0
    => /\ D.speed_error = IF 2 * Abs(D.motors_dg) < Abs(D.distance_dg)
                          THEN D.motors_dg
                          ELSE D.distance_dg - D.motors_dg
       /\ pid.RunSpeedControl.previous_error = D.speed_error

\* C11 witness: the first iteration read less than half of the target and
\* was given motors_dg, the second read more and was given the rest of the way.
C11_Witness ==
    /\ D.fn = "drive" /\ pc = "drive_loop" /\ D.iter = 2
    /\ 2 * Abs(D.motors_dg) >= Abs(D.distance_dg)
    /\ D.speed_error = D.distance_dg - D.motors_dg
    /\ pid.RunSpeedControl.integral - D.speed_error # 0
    /\ 2 * Abs(pid.RunSpeedControl.integral - D.speed_error) < Abs(D.distance_dg)

\* C12 as stated: the speed given to the left wheel in an iteration of drive
\* has a magnitude between |min_speed| and |max_speed| and the sign of the
\* distance.
C12_LeftSpeedClamped ==
    D.fn = "drive" /\ pc = "drive_loop" /\ D.iter > 0
    => /\ cmd.left.kind = "run"
       /\ Abs(cmd.left.speed) >= Abs(D.min_speed) * 100
       /\ Abs(cmd.left.speed) <= Abs(D.max_speed) * 100
       /\ (D.distance < 0 <=> cmd.left.speed < 0)

\* C13: a drive that passed "if self.active" returns with brake as the last
\* command of both wheels, whatever ended its loop.
C13_DriveEndsBraked ==
    ret.fn = "drive" /\ ret.live
        /\ (pc \in {"idle", "fl_after"} \/ (pc = "sq_check" /\ S.repetition = 0))
    => BothBraked

\* C13 witness: a drive whose loop ended by the distance or a stall has
\* returned to the main path with both wheels braked.
C13_Witness ==
    /\ pc = "idle" /\ ret.fn = "drive" /\ ret.live /\ ret.why = "done"
    /\ BothBraked
\* The calls a path of alternating distances and angles stands for: drive
\* for the 1st, 3rd, ... element and turn for the 2nd, 4th, ..., each with
\* that element as argument.
ExpectedLegs(path) ==
    [k \in 1..Len(path) |-> <<IF k % 2 = 1 THEN "drive" ELSE "turn", path[k]>>]

\* C14 as stated: run_path over a path of odd length n issues (n+1)/2 drive
\* calls and (n-1)/2 turn calls, alternating, with the elements of the path
\* as arguments in order.
C14_PathIssuesAlternatingLegs ==
    ret.fn = "run_path" /\ Len(ret.args) % 2 = 1
    => RunPathIssued(ret.args) = ExpectedLegs(ret.args)

\* C15 as stated: run_path never aborts: it invokes every leg of the path,
\* whatever happens to the flag, and returns normally.
C15_PathDrainsAndReturns ==
    ret.fn = "run_path"
    => /\ err = "none"
       /\ Len(RunPathIssued(ret.args)) = Len(RunPathAttempts(ret.args))
\* C16: a square_line whose flag stays set runs two repetitions and drives
\* once: the nudge of 5 against the approach speed, called in the first
\* repetition once both sides are on the line, before the second repetition
\* starts; the second repetition is followed by no nudge.
C16_TwoRepetitionsOneNudge ==
    /\ S.fn = "square_line" /\ pc = "sq_exit" /\ S.why = "done"
       => S.starts = 2 /\ S.nudges = 1 /\ S.left_ok /\ S.right_ok
    /\ S.fn = "square_line" /\ caller = "square_line"
            /\ pc \in {"drive_entry", "drive_loop", "drive_body", "drive_exit"}
       => /\ S.starts = 1 /\ S.nudges = 1 /\ S.left_ok /\ S.right_ok
          /\ Abs(D.distance) = 5
          /\ (D.distance < 0 <=> S.speed > 0)
    /\ S.fn = "square_line" /\ S.starts = 2 => S.nudges = 1
    /\ S.fn = "square_line" /\ pc = "sq_rep" => S.nudges = S.starts
    /\ S.fn = "square_line" /\ pc \in {"sq_loop", "sq_body"}
       => S.nudges = S.starts - 1

\* C16 witness: both repetitions are over with the flag still set, after
\* one nudge.
C16_Witness ==
    /\ S.fn = "square_line" /\ pc = "sq_exit" /\ S.why = "done" /\ active
    /\ S.starts = 2 /\ S.nudges = 1

\* C17 as stated: square_line ends with both wheels held, and once the flag
\* is cleared it starts no further repetition.
C17_NoRepetitionAfterInterruption ==
    /\ pc = "idle" /\ ret.fn = "square_line" /\ ret.live /\ ret.why # "raise"
       => BothHeld
    /\ S.fn = "square_line" /\ S.starts = 2 => ~S.late

\* C17 amended: square_line ends with both wheels held however it ended;
\* a repetition that starts after the flag was cleared only issues its two
\* run commands: its loop body never runs, no nudge follows it, and the
\* next check of the flag ends the call.
C17_HeldAfterAtMostOneLateStart ==
    /\ pc = "idle" /\ ret.fn = "square_line" /\ ret.live /\ ret.why # "raise"
       => BothHeld
    /\ S.fn = "square_line" /\ S.late
       => /\ ~active
          /\ pc \in {"sq_loop", "sq_check", "sq_exit"}
          /\ S.nudges = S.starts - 1
    /\ S.fn = "square_line" /\ pc = "sq_exit" /\ S.why = "active" => ~active

\* C17 witness: the flag was cleared between the check after the nudge and
\* the second repetition, which started, and the call is about to hold.
C17_Witness ==
    /\ S.fn = "square_line" /\ pc = "sq_exit" /\ S.late /\ S.starts = 2
    /\ S.why = "active"
    /\ cmd.left.kind = "run" /\ cmd.right.kind = "run"

\* The spellings of the two colors among Colors.
ValidColors == { <<"W", "H", "I", "T", "E">>, <<"w", "h", "i", "t", "e">>,
                 <<"B", "L", "A", "C", "K">>, <<"B", "l", "a", "c", "k">> }

\* C18 as stated: a drive_to_line or square_line called with a color that is
\* neither WHITE nor BLACK fails in every state, and one called with a
\* spelling of WHITE or BLACK does not.
C18_InvalidColorAlwaysFails ==
    ret.fn \in {"drive_to_line", "square_line"}
    => (err = "Exception" <=> ret.args[1] \notin ValidColors)

\* C18 amended: a drive_to_line or square_line fails exactly when it is
\* entered with the flag set and a color that is neither WHITE nor BLACK;
\* the failure ends the call before any command or drive; a call entered with
\* the flag cleared returns without an error whatever its color.
C18_InvalidColorFailsWhenActive ==
    /\ ret.fn \in {"drive_to_line", "square_line"}
       => /\ err = "Exception" <=> (ret.live /\ ret.args[1] \notin ValidColors)
          /\ err = "Exception" => ret.why = "raise" /\ pc = "idle"
    /\ S.fn = "square_line" /\ pc # "sq_entry" => S.color \in ValidColors
    /\ caller = "drive_to_line" /\ D.fn = "drive"
       => D.exit_exec \in {"white", "black"}
    /\ err = "Exception" => ret.fn \in {"drive_to_line", "square_line"}

\* C18 witness: a square_line entered with the flag set and the color RED
\* has failed.
C18_Witness ==
    /\ ret.fn = "square_line" /\ ret.live /\ ret.args[1] = <<"R", "E", "D">>
    /\ err = "Exception" /\ pc = "idle"

\* The integral and the previous error of a controller are zero.
Fresh(c) == c.integral = 0 /\ c.previous_error = 0

\* C19: when the loop of a turn or of a drive (called directly, by
\* follow_line, by drive_to_line or as the nudge of square_line) is about to
\* run for the first time, the controllers it executes have a zero integral
\* and previous error; between calls every controller has.
C19_FreshControllers ==
    /\ T.fn = "turn" /\ pc \in {"turn_loop", "turn_body"} /\ T.iter = 0
       => Fresh(pid.TurnSpeedControl)
    /\ D.fn = "drive" /\ pc \in {"drive_loop", "drive_body"} /\ D.iter = 0
       => Fresh(pid.RunSpeedControl) /\ Fresh(pid.RunHeadingControl)
    /\ pc = "idle"
       => \A n \in DOMAIN pid : Fresh(pid[n])

\* C19 witness: a second drive is about to run its first iteration, after a
\* drive that left the wheels braked, with both controllers at zero.
C19_Witness ==
    /\ D.fn = "drive" /\ pc = "drive_body" /\ D.iter = 0
    /\ cmd.left = Brake
    /\ Fresh(pid.RunSpeedControl) /\ Fresh(pid.RunHeadingControl)

\* C20: under LiveSpec, whenever a primitive is executing and the button is
\* pressed, then unless the button is released the flag is cleared and the
\* call returns; the watcher can always poll again.
C20_StopEndsCall ==
    /\ [](ENABLED task_handler)
    /\ (pc # "idle" /\ button) ~> (~button \/ (~active /\ pc = "idle"))

\* C20 witness: with the button still pressed, a call whose loop was ended
\* by the cleared flag has returned.
C20_Witness ==
    /\ button /\ ~active /\ pc = "idle"
    /\ ret.live /\ ret.why = "active"
\* The gain a call gets from an override: the override when one is given,
\* the gain the controller had otherwise.
Chosen(override, current) == IF override = None THEN current ELSE override[1]

\* C21: in a turn whose iterations all read the same error e, after k
\* executes on the freshly reset controller the integral is k*e, the first
\* output is kp*e + ki*e + kd*e and the second is kp*e + ki*2*e with no
\* derivative part; settings leaves the integral and previous error at the
\* zero that reset gave them.
C21_ConstantErrorArithmetic ==
    LET c == pid.TurnSpeedControl
        e == T.error
    IN /\ T.fn = "turn" /\ pc \in {"turn_loop", "turn_body"} /\ T.iter = 0
          => c.integral = 0 /\ c.previous_error = 0
       /\ T.fn = "turn" /\ pc = "turn_loop" /\ T.iter = 1
          => /\ c.integral = e /\ c.previous_error = e
             /\ c.output = c.kp * e + c.ki * e + c.kd * e
       /\ T.fn = "turn" /\ pc = "turn_loop" /\ T.iter = 2 /\ T.first_error = e
          => /\ c.integral = 2 * e /\ c.previous_error = e
             /\ c.output = c.kp * e + c.ki * 2 * e
             /\ cmd.left = Run(c.kp * e + c.ki * 2 * e)

\* C21 witness: a turn given a kd has executed twice on the same non-zero
\* error.
C21_Witness ==
    /\ T.fn = "turn" /\ pc = "turn_loop" /\ T.iter = 2
    /\ T.first_error = T.error /\ T.error # 0
    /\ pid.TurnSpeedControl.kd # 0 /\ pid.TurnSpeedControl.ki # 0
    /\ pid.TurnSpeedControl.integral = 2 * T.error
\* The gains of controller c are the overrides g = <<kp, ki, kd>> where given
\* and the gains p, i, d the controller had before the call elsewhere.
GainsAre(c, g, p, i, d) ==
    /\ c.kp = Chosen(g[1], p)
    /\ c.ki = Chosen(g[2], i)
    /\ c.kd = Chosen(g[3], d)

\* C22: while a turn or a drive runs, each gain of its controllers is the
\* caller's override if one was given and the gain the controller had before
\* the call if not, gain by gain.
C22_OmittedGainsKept ==
    /\ T.fn = "turn" /\ pc \in {"turn_loop", "turn_body", "turn_exit"}
       => GainsAre(pid.TurnSpeedControl, <<T.speed_kp, T.speed_ki, T.speed_kd>>,
                   TurnKp, TurnKi, DefaultKd)
    /\ D.fn = "drive" /\ pc \in {"drive_loop", "drive_body", "drive_exit"}
       => /\ GainsAre(pid.RunSpeedControl, D.speed,
                      RunSpeedKp, RunSpeedKi, DefaultKd)
          /\ GainsAre(pid.RunHeadingControl, D.heading,
                      RunHeadingKp, RunHeadingKi, DefaultKd)

\* C22 witness: a turn given only ki runs with that ki and the kp and kd the
\* controller had.
C22_Witness ==
    /\ T.fn = "turn" /\ pc = "turn_body"
    /\ T.speed_kp = None /\ T.speed_ki # None /\ T.speed_kd = None
    /\ pid.TurnSpeedControl.kp = TurnKp
    /\ pid.TurnSpeedControl.ki = T.speed_ki[1] /\ pid.TurnSpeedControl.ki # TurnKi
    /\ pid.TurnSpeedControl.kd = DefaultKd
\* C23: in the loop of a square_line repetition a side is done from the
\* first iteration in which its predicate fires and stays done whatever its
\* sensor reads later; a wheel is held exactly in the iterations in which its
\* predicate fires and is left alone in the others, so a done wheel stays
\* held while the loop goes on; the loop goes on exactly while a side is not
\* done; and a repetition starts with neither side done.
C23_SidesLatch ==
    /\ [](S.fn = "square_line" /\ pc \in {"sq_loop", "sq_body"}
          => /\ ~(S.left_ok /\ S.right_ok)
             /\ S.left_ok => cmd.left = Hold
             /\ S.right_ok => cmd.right = Hold)
    /\ [][/\ pc = "sq_body" /\ pc' # pc
             => /\ S'.left_ok = (S.left_ok \/ S'.fired.left)
                /\ S'.right_ok = (S.right_ok \/ S'.fired.right)
                /\ cmd'.left = IF S'.fired.left THEN Hold ELSE cmd.left
                /\ cmd'.right = IF S'.fired.right THEN Hold ELSE cmd.right
                /\ (pc' = "sq_loop") = ~(S'.left_ok /\ S'.right_ok)
          /\ pc = "sq_rep" /\ pc' # pc
             => pc' = "sq_loop" /\ ~S'.left_ok /\ ~S'.right_ok]_vars

\* C23 witness: in the second repetition the left side is done and held, its
\* sensor no longer satisfies the predicate, and the right side is not done.
C23_Witness ==
    /\ S.fn = "square_line" /\ pc = "sq_loop" /\ S.starts = 2
    /\ S.left_ok /\ ~S.fired.left /\ ~S.right_ok
    /\ cmd.left = Hold /\ cmd.right.kind = "run"
\* C24: after every iteration of drive the left wheel runs at the clamped
\* output of the speed controller and the right wheel at that speed minus
\* the output of the heading controller; the error the heading controller
\* was given is orientation minus the gyro angle for a constant orientation
\* and what orientation returned for a callable one, for which the gyro
\* angle is not read.
C24_DifferentialSteering ==
    D.fn = "drive" /\ pc = "drive_loop" /\ D.iter > 0
    => LET sc == pid.RunSpeedControl
           hc == pid.RunHeadingControl
       IN /\ cmd.left = Run(sc.output)
          /\ cmd.right = Run(sc.output - hc.output)
          /\ Abs(sc.output) >= Abs(D.min_speed) * 100
          /\ Abs(sc.output) <= Abs(D.max_speed) * 100
          /\ D.iter = 1
             => hc.output = hc.kp * hc.previous_error + hc.ki * hc.previous_error
                            + hc.kd * hc.previous_error
          /\ D.orientation.kind = "const"
             => /\ hc.previous_error = D.orientation.value - D.heading_read
                /\ "gyro_angle" \in used
          /\ D.orientation.kind = "callable"
             => /\ hc.previous_error = D.heading_read
                /\ "gyro_angle" \notin used
          /\ D.orientation.kind = "reflection"
             => /\ hc.previous_error = D.heading_read - D.orientation.value
                /\ "gyro_angle" \notin used

\* C24 witness: a drive with orientation 4 read a gyro angle of 1 and runs
\* the right wheel slower than the left by the heading output.
C24_Witness ==
    /\ D.fn = "drive" /\ pc = "drive_loop" /\ D.iter = 1
    /\ D.orientation = Constant(4) /\ D.heading_read = 1
    /\ pid.RunHeadingControl.previous_error = 3
    /\ pid.RunHeadingControl.output > 0
    /\ cmd.right.speed = cmd.left.speed - pid.RunHeadingControl.output

\* C24 second witness: a drive with a callable orientation was returned 1 by
\* it without reading the gyro angle.
C24_WitnessCallable ==
    /\ D.fn = "drive" /\ pc = "drive_loop" /\ D.iter = 1
    /\ D.orientation.kind = "callable" /\ D.heading_read = 1
    /\ pid.RunHeadingControl.previous_error = 1
\* kp, ki and kd of controller c, in hundredths.
Gains(c) == <<c.kp, c.ki, c.kd>>

\* C25: whenever no primitive is executing, the five controllers have the
\* gains they were constructed with: turn 6/0.15, run speed 3/0.17/0, run
\* heading 15/0.1/0, line-follower speed 1.4/0/0 and line-follower heading
\* 3/0/0.4.
C25_DefaultsWhenIdle ==
    pc = "idle"
    => /\ Gains(pid.TurnSpeedControl) = <<600, 15, 0>>
       /\ Gains(pid.RunSpeedControl) = <<300, 17, 0>>
       /\ Gains(pid.RunHeadingControl) = <<1500, 10, 0>>
       /\ Gains(pid.LineFollowerSpeedControl) = <<140, 0, 0>>
       /\ Gains(pid.LineFollowerHeadingControl) = <<300, 0, 40>>

\* C25 witness: a follow_line given a speed kp and a heading ki has returned,
\* its drive having been ended by the cleared flag.
C25_Witness ==
    /\ pc = "idle" /\ ret.fn = "follow_line" /\ ret.live
    /\ ret.args = <<<<Some(200), None, None>>, <<None, Some(5), None>>>>
    /\ ~active
    /\ Gains(pid.LineFollowerSpeedControl) = <<140, 0, 0>>
    /\ Gains(pid.RunSpeedControl) = <<300, 17, 0>>
\* C26: in drive moved_enough is true after an iteration exactly if that or
\* an earlier iteration of the call read at least half of the target; when
\* it is true and the last reading is below half, the error of that
\* iteration is motors_dg again and a stall or a reading inside the band
\* still ends the loop.
C26_MovedEnoughLatches ==
    D.fn = "drive" /\ pc = "drive_loop" /\ D.iter > 0
    => /\ D.moved_enough = D.half_seen
       /\ D.moved_enough /\ 2 * Abs(D.motors_dg) < Abs(D.distance_dg)
          => /\ D.speed_error = D.motors_dg
             /\ D.stalled.left \/ D.stalled.right => ~D.moving
             /\ Abs(D.motors_dg) >= Abs(D.distance_dg) - 20 => ~D.moving

\* C26 witness: the second iteration read less than half of the target
\* after the first had read half, and its stall ended the loop.
C26_Witness ==
    /\ D.fn = "drive" /\ pc = "drive_loop" /\ D.iter = 2
    /\ D.moved_enough /\ 2 * Abs(D.motors_dg) < Abs(D.distance_dg)
    /\ D.speed_error = D.motors_dg /\ D.motors_dg # 0
    /\ D.stalled.right /\ ~D.stalled.left /\ ~D.moving
\* C27: a drive whose first iteration reads 0 on the wheels runs the left
\* wheel at min_speed, signed by the distance, in that iteration, whatever
\* the distance and the gains; and a drive to a target of at most 40 degrees
\* ends its loop in the first iteration that reads at least half of it.
C27_StartsAtMinSpeed ==
    /\ D.fn = "drive" /\ pc = "drive_loop" /\ D.iter = 1 /\ D.motors_dg = 0
       => cmd.left = Run(Abs(D.min_speed) * 100 * (IF D.distance < 0 THEN -1 ELSE 1))
    /\ D.fn = "drive" /\ pc = "drive_loop" /\ D.iter > 0
            /\ Abs(D.distance_dg) <= 40
            /\ 2 * Abs(D.motors_dg) >= Abs(D.distance_dg)
       => ~D.moving
    /\ D.fn = "drive" /\ pc = "drive_body" => D.moving

\* C27 witness: a backward drive with a kp override read 0 in its first
\* iteration and runs the left wheel at -90.
C27_Witness ==
    /\ D.fn = "drive" /\ pc = "drive_loop" /\ D.iter = 1 /\ D.motors_dg = 0
    /\ D.distance < 0 /\ D.speed[1] # None
    /\ cmd.left = Run(-9000)

\* C27 second witness: a drive to 18 degrees read 9 in its second iteration,
\* after a first reading below half, and its loop ends.
C27_WitnessShort ==
    /\ D.fn = "drive" /\ pc = "drive_loop" /\ D.iter = 2
    /\ D.distance_dg = 18 /\ D.motors_dg = 9 /\ ~D.moving
C28_WitnessRuns ==
    /\ caller = "drive_to_line" /\ D.fn = "drive" /\ pc = "drive_loop"
    /\ D.given = "env" /\ D.iter = 2 /\ D.moving /\ "sensor" \in used
====
